---- MODULE Spec2Model ----
(***************************************************************************)
(* A model of src/utilities.py: the derivations that the plotting helpers  *)
(* run on a survey table before they draw.  The drawing calls (seaborn,    *)
(* matplotlib) read the derived tables and write nothing back; they are    *)
(* not modelled.                                                           *)
(*                                                                         *)
(* Representation.                                                         *)
(*   - A cell is <<>> when it is null (None / NaN) and <<x>> otherwise.    *)
(*   - A number of a numeric column is kept in halves: <<3>> is 1.5.       *)
(*     Quartiles are kept times 4 and the IQR bounds times 8, so that the  *)
(*     interpolation and the factor 1.5 stay exact.                        *)
(*   - A number produced from answer text is kept in tenths: <<5>> is 0.5. *)
(*   - A quotient is an extended rational: [k |-> "fin", n, d] with d > 0, *)
(*     or [k |-> "inf"], [k |-> "-inf"], [k |-> "nan"] as IEEE division    *)
(*     gives them.                                                         *)
(***************************************************************************)
EXTENDS Integers, Sequences, FiniteSets, TLC

VARIABLES df, shape, text_to_num_mapping, call, out

vars == <<df, shape, text_to_num_mapping, call, out>>

NaN == <<>>

IsNull(cell) == cell = <<>>

\* ------------------------------------------------------------------ bounds

\* Rows of a numeric table handed to find_outliers.
MaxNumRows == 5

\* Length of the feature list handed to find_outliers.
MaxFeatures == 2

\* ------------------------------------------------------- generic helpers

RECURSIVE SeqSum(_)
SeqSum(s) == IF s = <<>> THEN 0 ELSE Head(s) + SeqSum(Tail(s))

RECURSIVE SelectIdx(_, _, _)
\* The indices i of 1..n, ascending, for which keep[i] holds.
SelectIdx(keep, i, n) ==
    IF i > n THEN <<>>
    ELSE (IF keep[i] THEN <<i>> ELSE <<>>) \o SelectIdx(keep, i + 1, n)

Range(s) == {s[i] : i \in DOMAIN s}

NoDuplicates(s) == \A i, j \in DOMAIN s : s[i] = s[j] => i = j

SeqsUpTo(S, n) == UNION {[1..k -> S] : k \in 0..n}

\* ------------------------------------------------------------ find_outliers

\* The numeric tables: two columns, rows drawn from a small pool (halves).
NumColumns == {"a", "b"}

NumRowPool ==
    { [a |-> <<0>>,  b |-> <<0>>],
      [a |-> <<-1>>, b |-> NaN],
      [a |-> <<1>>,  b |-> <<3>>] }

FeatureNames == {"a", "b", "zz"}

\* feature in df.columns
InColumns(t, feature) == feature \in t.columns

\* df[feature]
Column(t, feature) == [i \in DOMAIN t.rows |-> t.rows[i][feature]]

\* The non-null values of a column, ascending (what quantile() interpolates in).
SortedValues(col) ==
    LET idx == SelectIdx([i \in DOMAIN col |-> ~IsNull(col[i])], 1, Len(col))
    IN  SortSeq([i \in DOMAIN idx |-> col[idx[i]][1]], LAMBDA x, y : x < y)

\* 4 * Series.quantile(k/4), linear interpolation; NaN when no value is present.
quantile4(col, k) ==
    LET s   == SortedValues(col)
        n   == Len(s)
        pos == (n - 1) * k
        lo  == pos \div 4
        r   == pos % 4
    IN  IF n = 0 THEN NaN
        ELSE IF r = 0 THEN <<4 * s[lo + 1]>>
        ELSE <<4 * s[lo + 1] + r * (s[lo + 2] - s[lo + 1])>>

\* 8 * lower_bound, with lower_bound = q1 - 1.5 * iqr
lower_bound8(col) ==
    LET q1 == quantile4(col, 1)
        q3 == quantile4(col, 3)
    IN  IF IsNull(q1) THEN NaN
        ELSE <<2 * q1[1] - 3 * (q3[1] - q1[1])>>

\* 8 * upper_bound, with upper_bound = q3 + 1.5 * iqr
upper_bound8(col) ==
    LET q1 == quantile4(col, 1)
        q3 == quantile4(col, 3)
    IN  IF IsNull(q1) THEN NaN
        ELSE <<2 * q3[1] + 3 * (q3[1] - q1[1])>>

OutsideInclusive(cell, lo8, hi8) ==
    /\ ~IsNull(cell) /\ ~IsNull(lo8) /\ ~IsNull(hi8)
    /\ (8 * cell[1] <= lo8[1] \/ 8 * cell[1] >= hi8[1])

\* (df[feature] < lower_bound) | (df[feature] > upper_bound); a comparison
\* with NaN on either side is False.
Outside(cell, lo8, hi8) ==
    /\ ~IsNull(cell) /\ ~IsNull(lo8) /\ ~IsNull(hi8)
    /\ (8 * cell[1] < lo8[1] \/ 8 * cell[1] > hi8[1])

\* feature_outliers: the selected cells of the column, in row order.
feature_outliers(t, feature) ==
    LET col == Column(t, feature)
        lo8 == lower_bound8(col)
        hi8 == upper_bound8(col)
        idx == SelectIdx([i \in DOMAIN col |-> Outside(col[i], lo8, hi8)],
                         1, Len(col))
    IN  [i \in DOMAIN idx |-> col[idx[i]][1]]

RECURSIVE unique(_)
\* Series.unique(): the distinct values in order of first appearance.
unique(s) ==
    IF s = <<>> THEN <<>>
    ELSE LET front == unique(SubSeq(s, 1, Len(s) - 1))
             last  == s[Len(s)]
         IN  IF last \in Range(front) THEN front ELSE Append(front, last)

\* int(value) of a value kept in halves: Python truncates toward zero.
int(v) == IF v >= 0 THEN v \div 2 ELSE -((-v) \div 2)

\* feature_outliers_unique = [int(value) for value in feature_outliers.unique()]
feature_outliers_unique(t, feature) ==
    LET u == unique(feature_outliers(t, feature))
    IN  [i \in DOMAIN u |-> int(u[i])]

RECURSIVE append_new(_, _)
\* for value in feature_outliers_unique:
\*     if value not in outliers_list: outliers_list.append(value)
append_new(outliers_list, values) ==
    IF values = <<>> THEN outliers_list
    ELSE append_new(IF Head(values) \in Range(outliers_list)
                        THEN outliers_list
                        ELSE Append(outliers_list, Head(values)),
                    Tail(values))

\* The line printed for a feature of the table.
feature_summary(feature, values) ==
    IF values # <<>>
        THEN [feature |-> feature, kind |-> "outliers", values |-> values]
        ELSE [feature |-> feature, kind |-> "no outliers", values |-> <<>>]

RECURSIVE find_outliers_loop(_, _, _, _)

AbortOnMissing(t, rest, outliers_list, summary, feature) ==
    [outliers_list |-> outliers_list,
     summary |-> Append(summary, [feature |-> feature, kind |-> "not found",
                                  values |-> <<>>])]

\* if feature not in df.columns: print(...); continue
skip_missing(t, rest, outliers_list, summary, feature) ==
    find_outliers_loop(t, rest, outliers_list,
        Append(summary, [feature |-> feature, kind |-> "not found",
                         values |-> <<>>]))

\* for feature in features: ...
find_outliers_loop(t, features, outliers_list, summary) ==
    IF features = <<>>
        THEN [outliers_list |-> outliers_list, summary |-> summary]
    ELSE LET feature == Head(features) IN
         IF ~InColumns(t, feature)
             THEN skip_missing(t, Tail(features), outliers_list, summary, feature)
         ELSE LET fou == feature_outliers_unique(t, feature) IN
              find_outliers_loop(t, Tail(features),
                                 append_new(outliers_list, fou),
                                 Append(summary, feature_summary(feature, fou)))

find_outliers(t, features) == find_outliers_loop(t, features, <<>>, <<>>)

\* ------------------------------------------------------ extended rationals

RECURSIVE GCD(_, _)
GCD(a, b) == IF b = 0 THEN a ELSE GCD(b, a % b)

Abs(x) == IF x < 0 THEN -x ELSE x

XNan == [k |-> "nan"]

XInf == [k |-> "inf"]

XNegInf == [k |-> "-inf"]

\* n / d in lowest terms, d # 0.
Fin(n, d) ==
    LET g == GCD(Abs(n), Abs(d))
        s == IF d < 0 THEN -1 ELSE 1
    IN  [k |-> "fin", n |-> (s * n) \div g, d |-> (s * d) \div g]

IsFinite(x) == x.k = "fin"

Sign(x) ==
    CASE x.k = "inf" -> 1
      [] x.k = "-inf" -> -1
      [] x.k = "fin" -> (IF x.n > 0 THEN 1 ELSE IF x.n < 0 THEN -1 ELSE 0)

\* x / y in float arithmetic with numpy's division by zero (no exception).
XDiv(x, y) ==
    IF x.k = "nan" \/ y.k = "nan" THEN XNan
    ELSE IF IsFinite(x) /\ IsFinite(y) THEN
        IF y.n # 0 THEN Fin(x.n * y.d, x.d * y.n)
        ELSE IF x.n = 0 THEN XNan
        ELSE IF x.n > 0 THEN XInf ELSE XNegInf
    ELSE IF IsFinite(x) THEN Fin(0, 1)
    ELSE IF ~IsFinite(y) THEN XNan
    ELSE IF Sign(x) * (IF y.n >= 0 THEN 1 ELSE -1) > 0 THEN XInf ELSE XNegInf

XMul(x, y) ==
    IF x.k = "nan" \/ y.k = "nan" THEN XNan
    ELSE IF IsFinite(x) /\ IsFinite(y) THEN Fin(x.n * y.n, x.d * y.d)
    ELSE IF Sign(x) * Sign(y) = 0 THEN XNan
    ELSE IF Sign(x) * Sign(y) > 0 THEN XInf ELSE XNegInf

XAdd(x, y) ==
    IF x.k = "nan" \/ y.k = "nan" THEN XNan
    ELSE IF IsFinite(x) /\ IsFinite(y) THEN Fin(x.n * y.d + y.n * x.d, x.d * y.d)
    ELSE IF IsFinite(x) THEN y
    ELSE IF IsFinite(y) THEN x
    ELSE IF x = y THEN x ELSE XNan

XNeg(x) ==
    CASE x.k = "nan" -> XNan
      [] x.k = "inf" -> XNegInf
      [] x.k = "-inf" -> XInf
      [] x.k = "fin" -> Fin(-x.n, x.d)

XInt(n) == Fin(n, 1)

\* np.sqrt, kept symbolic: NaN for a negative or NaN radicand.
XSqrt(x) ==
    IF x.k = "nan" \/ x.k = "-inf" THEN XNan
    ELSE IF x.k = "inf" THEN XInf
    ELSE IF x.n < 0 THEN XNan
    ELSE [k |-> "sqrt", of |-> x]

\* A multiple c * sqrt(r) of a root; NaN and inf pass through.
XScaleRoot(c, root) ==
    IF root.k = "sqrt" THEN [k |-> "root", coef |-> c, of |-> root.of] ELSE root

RECURSIVE XSum(_)
XSum(s) == IF s = <<>> THEN XInt(0) ELSE XAdd(Head(s), XSum(Tail(s)))

\* ------------------------------------------------------------ survey tables

\* Rows of a long-format survey table.
MaxSurveyRows == 4

SurveyRowPool ==
    { [QuestionID |-> 1, AnswerText |-> <<"A">>, SurveyID |-> 2016],
      [QuestionID |-> 2, AnswerText |-> <<"A">>, SurveyID |-> 2016],
      [QuestionID |-> 2, AnswerText |-> <<"B">>, SurveyID |-> 2016],
      [QuestionID |-> 2, AnswerText |-> <<"C">>, SurveyID |-> 2017],
      [QuestionID |-> 2, AnswerText |-> <<"D">>, SurveyID |-> 2016],
      [QuestionID |-> 2, AnswerText |-> NaN,     SurveyID |-> 2016] }

QuestionIDs == {1, 2}

\* questions: "List of two QuestionIDs for plotting".
QuestionLists == {<<q, r>> : q \in QuestionIDs, r \in QuestionIDs}

SurveyTables == SeqsUpTo(SurveyRowPool, MaxSurveyRows)

\* Characters in code-point order, for comparing texts.
Alphabet == " ,.0123456789ABCDMNSYabcdefhilmnost"

Ord(ch) == CHOOSE i \in 1..Len(Alphabet) : SubSeq(Alphabet, i, i) = ch

RECURSIVE TextLess(_, _)
\* a < b on str
TextLess(a, b) ==
    IF b = "" THEN FALSE
    ELSE IF a = "" THEN TRUE
    ELSE LET ca == Ord(SubSeq(a, 1, 1))
             cb == Ord(SubSeq(b, 1, 1))
         IN  IF ca # cb THEN ca < cb
             ELSE TextLess(SubSeq(a, 2, Len(a)), SubSeq(b, 2, Len(b)))

\* (SurveyID, AnswerText) keys compared as groupby / sort_values compare them.
KeyLess(x, y) == x[1] < y[1] \/ (x[1] = y[1] /\ TextLess(x[2], y[2]))

RECURSIVE SortedKeys(_)
SortedKeys(S) ==
    IF S = {} THEN <<>>
    ELSE LET m == CHOOSE x \in S : \A y \in S \ {x} : KeyLess(x, y)
         IN  <<m>> \o SortedKeys(S \ {m})

RECURSIVE SortedInts(_)
SortedInts(S) ==
    IF S = {} THEN <<>>
    ELSE LET m == CHOOSE x \in S : \A y \in S : x <= y
         IN  <<m>> \o SortedInts(S \ {m})

RECURSIVE SortedTexts(_)
SortedTexts(S) ==
    IF S = {} THEN <<>>
    ELSE LET m == CHOOSE x \in S : \A y \in S \ {x} : TextLess(x, y)
         IN  <<m>> \o SortedTexts(S \ {m})

\* df[df["QuestionID"] == q]: the rows kept, in table order.
FilterQuestion(t, q) ==
    LET idx == SelectIdx([i \in DOMAIN t |-> t[i].QuestionID = q], 1, Len(t))
    IN  [i \in DOMAIN idx |-> t[idx[i]]]

\* groupby(["SurveyID", "AnswerText"]).size(): rows with a null key are dropped.
GroupKeys(t) ==
    {<<t[i].SurveyID, t[i].AnswerText[1]>> : i \in {j \in DOMAIN t : ~IsNull(t[j].AnswerText)}}

GroupSize(t, key) ==
    Cardinality({i \in DOMAIN t : /\ ~IsNull(t[i].AnswerText)
                                  /\ t[i].SurveyID = key[1]
                                  /\ t[i].AnswerText[1] = key[2]})

\* ------------------------------------------------------ create_gender_barplot

GenderQuestion == 2

\* .size().reset_index(name="Count").sort_values(by=["SurveyID", "AnswerText"])
group_counts(t) ==
    LET keys == SortedKeys(GroupKeys(t))
    IN  [i \in DOMAIN keys |->
            [SurveyID |-> keys[i][1], AnswerText |-> keys[i][2],
             Count |-> GroupSize(t, keys[i])]]

TableSum(counts, i) == SeqSum([j \in DOMAIN counts |-> counts[j].Count])

\* gender_counts.groupby("SurveyID")["Count"].transform("sum"), at row i
gender_sum(counts, i) ==
    SeqSum([j \in DOMAIN counts |->
               IF counts[j].SurveyID = counts[i].SurveyID THEN counts[j].Count ELSE 0])

\* gender_counts with its Percentage column
gender_counts(t) ==
    LET counts == group_counts(FilterQuestion(t, GenderQuestion))
    IN  [i \in DOMAIN counts |->
            [SurveyID |-> counts[i].SurveyID,
             AnswerText |-> counts[i].AnswerText,
             Count |-> counts[i].Count,
             Percentage |-> XMul(XDiv(XInt(counts[i].Count),
                                      XInt(gender_sum(counts, i))), XInt(100))]]

\* ------------------------------------------------------------ create_lineplot

\* fig, axes = plt.subplots(1, 2, ...): zip(axes, questions) stops after two.
Axes == 2

\* df_pivoted: the count of a (SurveyID, AnswerText) pair, NaN where the pair
\* has no row in df_counts (pivot_table is called without fill_value).
pivot_cell(curr, s, c) ==
    IF <<s, c>> \in GroupKeys(curr) THEN <<GroupSize(curr, <<s, c>>)>> ELSE NaN

TotalSum(curr, s, columns) ==
    Cardinality({i \in DOMAIN curr : ~IsNull(curr[i].AnswerText)})

\* df_pivoted.sum(axis=1) at row s: NaN cells are skipped.
row_sum(curr, s, columns) ==
    SeqSum([j \in DOMAIN columns |->
               IF IsNull(pivot_cell(curr, s, columns[j])) THEN 0
               ELSE pivot_cell(curr, s, columns[j])[1]])

\* df_pivoted.div(df_pivoted.sum(axis=1), axis=0) * 100 at one cell
pct_cell(curr, s, c, columns) ==
    IF IsNull(pivot_cell(curr, s, c)) THEN XNan
    ELSE XMul(XDiv(XInt(pivot_cell(curr, s, c)[1]),
                   XInt(row_sum(curr, s, columns))), XInt(100))

\* df_pivoted_pct for one question id
pivoted_pct(t, question_id) ==
    LET curr    == FilterQuestion(t, question_id)
        keys    == GroupKeys(curr)
        index   == SortedInts({k[1] : k \in keys})
        columns == SortedTexts({k[2] : k \in keys})
    IN  [question_id |-> question_id,
         index |-> index,
         columns |-> columns,
         cells |-> [k \in Range(index) \X Range(columns) |->
                        pct_cell(curr, k[1], k[2], columns)]]

Min(a, b) == IF a < b THEN a ELSE b

\* for ax, question_id in zip(axes, questions): one table per plotted question
create_lineplot(t, questions) ==
    [i \in 1..Min(Axes, Len(questions)) |-> pivoted_pct(t, questions[i])]

\* ------------------------------------------------- create_prevalence_barplot

\* The survey wave the denominator is counted in.
DenominatorWave == 2016

\* value_counts().head(3)
TopN == 3

AllWaves(t, q1) ==
    Cardinality({i \in DOMAIN t : /\ t[i].QuestionID = q1
                                  /\ ~IsNull(t[i].AnswerText)})

\* df[(QuestionID == q1) & (SurveyID == 2016)]["AnswerText"].count()
respondents(t, q1) ==
    Cardinality({i \in DOMAIN t : /\ t[i].QuestionID = q1
                                  /\ t[i].SurveyID = DenominatorWave
                                  /\ ~IsNull(t[i].AnswerText)})

\* The distinct non-null answers to q2.
Categories(t, q2) ==
    {t[i].AnswerText[1] : i \in {j \in DOMAIN t : /\ t[j].QuestionID = q2
                                                   /\ ~IsNull(t[j].AnswerText)}}

\* The number of rows of q2 with a given answer (all waves).
CategoryCount(t, q2, answer) ==
    Cardinality({i \in DOMAIN t : /\ t[i].QuestionID = q2
                                  /\ t[i].AnswerText = <<answer>>})

Perms(S) ==
    {s \in [1..Cardinality(S) -> S] : \A i, j \in DOMAIN s : s[i] = s[j] => i = j}

\* Series.value_counts(): descending counts.  The sort behind it is
\* sort_values' default quicksort, which is not stable: the order among
\* equal counts is whatever the sort leaves, so every order is possible.
value_counts(t, q2) ==
    {s \in Perms(Categories(t, q2)) :
        \A i, j \in DOMAIN s :
            i < j => CategoryCount(t, q2, s[i]) >= CategoryCount(t, q2, s[j])}

\* .head(n)
head(s, n) == SubSeq(s, 1, Min(n, Len(s)))

\* One row of top_3_diagnoses with its PrevalenceRate, Percentage and CI%.
prevalence_row(answer, count, denominator) ==
    LET rate == XDiv(XInt(count), XInt(denominator))
    IN  [AnswerText |-> answer,
         count |-> count,
         PrevalenceRate |-> rate,
         Percentage |-> XMul(rate, XInt(100)),
         CI |-> XScaleRoot(Fin(16456, 100),
                   XSqrt(XDiv(XMul(rate, XAdd(XInt(1), XNeg(rate))),
                              XInt(denominator))))]

\* top_3_diagnoses for one order that value_counts may return
top_3_diagnoses(t, q1, q2, order) ==
    LET top == head(order, TopN)
    IN  [i \in DOMAIN top |->
            prevalence_row(top[i], CategoryCount(t, q2, top[i]), respondents(t, q1))]

\* -------------------------------------------------------------- wide tables

\* Rows of a wide table (one column per question, one row per respondent).
MaxWideRows == 2

\* Length of the pair list handed to create_violin_subplots.
MaxPairs == 1

\* The columns of a wide table are named by question id; a row is <<c1, c2>>.
WideColumns == <<1, 2>>

WideRowPool ==
    { << <<"Yes">>,              <<"7">>     >>,
      << <<"Yes, all of them">>, <<"No">>    >>,
      << <<"None of them">>,     <<"10">>    >>,
      << <<"Some did">>,         NaN         >>,
      << <<"Some of them">>,     <<"Other">> >>,
      << <<"Maybe">>,            <<"12">>    >>,
      << <<"3">>,                <<"7">>     >>,
      << NaN,                    <<"Yes">>   >> }

WideTables == SeqsUpTo(WideRowPool, MaxWideRows)

QuestionPairs == {<<1, 2>>, <<2, 1>>}

\* text_to_num_mapping, values in tenths; the entry None: None is the null
\* case of map_cell.
MappingTable ==
    [text \in {"Yes", "Yes, all of them", "No", "None of them",
               "Some did", "Some of them", "Maybe"} |->
        CASE text \in {"Yes", "Yes, all of them"} -> <<10>>
          [] text \in {"No", "None of them"} -> <<0>>
          [] OTHER -> <<5>>]

Digits == "0123456789"

IsDigit(ch) == \E i \in 1..Len(Digits) : SubSeq(Digits, i, i) = ch

DigitValue(ch) == (CHOOSE i \in 1..Len(Digits) : SubSeq(Digits, i, i) = ch) - 1

AllDigits(text) == \A i \in 1..Len(text) : IsDigit(SubSeq(text, i, i))

RECURSIVE DigitsValue(_)
DigitsValue(text) ==
    IF text = "" THEN 0
    ELSE 10 * DigitsValue(SubSeq(text, 1, Len(text) - 1))
         + DigitValue(SubSeq(text, Len(text), Len(text)))

\* The position of the first "." of a text, 0 when it has none.
DotAt(text) ==
    IF \E i \in 1..Len(text) : SubSeq(text, i, i) = "."
        THEN CHOOSE i \in 1..Len(text) :
                 /\ SubSeq(text, i, i) = "."
                 /\ \A j \in 1..(i - 1) : SubSeq(text, j, j) # "."
        ELSE 0

\* pd.to_numeric(text, errors="coerce") on one text, in tenths: an unsigned
\* decimal with at most one digit after the point parses, anything else of
\* the texts modelled is coerced to NaN.
parse_number(text) ==
    LET dot == DotAt(text)
        whole == IF dot = 0 THEN text ELSE SubSeq(text, 1, dot - 1)
        frac  == IF dot = 0 THEN "" ELSE SubSeq(text, dot + 1, Len(text))
    IN  IF /\ AllDigits(whole) /\ AllDigits(frac)
           /\ Len(whole) + Len(frac) > 0 /\ Len(frac) <= 1
            THEN <<10 * DigitsValue(whole) + DigitsValue(frac)>>
            ELSE NaN

\* Series.map(text_to_num_mapping) at one cell: a key of the dict gives its
\* value, None gives None, any other text gives NaN.
map_cell(mapping, cell) ==
    IF IsNull(cell) THEN NaN
    ELSE IF cell[1] \in DOMAIN mapping THEN mapping[cell[1]]
    ELSE NaN

\* df[col].map(text_to_num_mapping): a float64 column
mapped_column(mapping, t, c) == [i \in DOMAIN t |-> map_cell(mapping, t[i][c])]

\* .convert_dtypes() of a float64 column: the nullable dtype it becomes, Int64
\* when every value present is whole (also when none is present), else Float64.
convert_dtypes(mapped) ==
    IF \A i \in DOMAIN mapped : IsNull(mapped[i]) \/ mapped[i][1] % 10 = 0
        THEN "Int64" ELSE "Float64"

\* Whether a nullable column of the dtype can take a text as a fill value:
\* the text is cast with int() or float(), which raise ValueError otherwise.
can_hold(dtype, text) ==
    IF dtype = "Int64" THEN text # "" /\ AllDigits(text)
    ELSE ~IsNull(parse_number(text))

\* .fillna(df[col]) at one cell of the nullable column: a present value is
\* kept, a null takes the original cell cast to the column's dtype.
fillna(dtype, mapped, original) ==
    IF ~IsNull(mapped) THEN mapped
    ELSE IF IsNull(original) THEN NaN
    ELSE parse_number(original[1])

\* Whether .fillna(df[col]) raises: some null of the mapped column would take
\* a text its dtype cannot hold.
fillna_raises(dtype, mapped, original) ==
    \E i \in DOMAIN mapped :
        /\ IsNull(mapped[i]) /\ ~IsNull(original[i])
        /\ ~can_hold(dtype, original[i][1])

\* pd.to_numeric(errors="coerce") at one cell of a nullable numeric column:
\* the value as float64, NaN for NA.
to_numeric(cell) == IF IsNull(cell) THEN NaN ELSE <<cell[1]>>

NoCopy(t) == [data |-> t, shared |-> TRUE]

\* df = df.copy(): the local name is bound to a new table.
copy(t) == [data |-> t, shared |-> FALSE]

\* df[col].map(text_to_num_mapping).convert_dtypes().fillna(df[col]) for one
\* column: whether it raises, and the column assigned to df[col] when not.
fill_column(mapping, t, c) ==
    LET mapped   == mapped_column(mapping, t, c)
        original == [i \in DOMAIN t |-> t[i][c]]
        dtype    == convert_dtypes(mapped)
    IN  [raised |-> fillna_raises(dtype, mapped, original),
         dtype  |-> dtype,
         values |-> [i \in DOMAIN t |-> fillna(dtype, mapped[i], original[i])]]

\* for col in df.columns: df[col] = ...: the loop stops at the first column
\* whose fillna raises.
fill_columns(mapping, t) ==
    LET cols == [c \in DOMAIN WideColumns |-> fill_column(mapping, t, c)]
    IN  [raised |-> \E c \in DOMAIN cols : cols[c].raised,
         assigned |-> {c \in DOMAIN cols : \A b \in 1..c : ~cols[b].raised},
         columns |-> cols]

\* df = df.apply(pd.to_numeric, errors="coerce"): the table df.corr() reads
numeric_table(t, filled) ==
    [i \in DOMAIN t |->
        [c \in DOMAIN WideColumns |-> to_numeric(filled.columns[c].values[i])]]

\* The table the local name refers to once the loop has ended.
after_loop(t, filled) ==
    [i \in DOMAIN t |->
        [c \in DOMAIN WideColumns |->
            IF c \in filled.assigned
                THEN [dtype |-> filled.columns[c].dtype,
                      value |-> filled.columns[c].values[i]]
                ELSE t[i][c]]]

\* What create_correlation_heatmap hands on: the ValueError of fillna, or the
\* numeric table.
correlation_input(t, filled) ==
    IF filled.raised THEN [raised |-> TRUE, value |-> "ValueError"]
    ELSE [raised |-> FALSE, value |-> numeric_table(t, filled)]

\* ---------------------------------------------------- create_violin_subplots

\* str.isnumeric() on one text
isnumeric(text) == text # "" /\ AllDigits(text)

\* df.reset_index().melt(id_vars="UserID", value_vars=[q1, q2], ...): the
\* answers to q1 of every respondent, then the answers to q2.
melt(t, pair) ==
    [i \in 1..(2 * Len(t)) |->
        LET v == IF i <= Len(t) THEN 1 ELSE 2
            u == IF i <= Len(t) THEN i ELSE i - Len(t)
        IN  [UserID |-> u, QuestionID |-> pair[v], AnswerText |-> t[u][pair[v]]]]

\* temp_df["AnswerText"].str.isnumeric().all(): nulls are skipped.
all_numeric(temp_df) ==
    \A i \in DOMAIN temp_df :
        IsNull(temp_df[i].AnswerText) \/ isnumeric(temp_df[i].AnswerText[1])

\* The column plotted for one pair, and its name.
violin_data(mapping, t, pair) ==
    LET temp_df == melt(t, pair)
    IN  IF all_numeric(temp_df)
            THEN [y_column |-> "AnswerText",
                  y |-> [i \in DOMAIN temp_df |->
                            IF IsNull(temp_df[i].AnswerText) THEN NaN
                            ELSE parse_number(temp_df[i].AnswerText[1])]]
            ELSE [y_column |-> "AnswerNumeric",
                  y |-> [i \in DOMAIN temp_df |->
                            map_cell(mapping, temp_df[i].AnswerText)]]

create_violin_subplots(mapping, question_pairs, t) ==
    [i \in DOMAIN question_pairs |-> violin_data(mapping, t, question_pairs[i])]

\* ------------------------------------------------------------------ machine

NumTables ==
    {[columns |-> NumColumns, rows |-> rs] : rs \in SeqsUpTo(NumRowPool, MaxNumRows)}

NoCall == [fn |-> "none"]

Returned(value) == [raised |-> FALSE, value |-> value]

Init ==
    /\ \/ shape = "numeric" /\ df \in NumTables
       \/ shape = "survey" /\ df \in SurveyTables
       \/ shape = "wide" /\ df \in WideTables
    /\ text_to_num_mapping = MappingTable
    /\ call = NoCall
    /\ out = <<>>

FindOutliers ==
    /\ shape = "numeric"
    /\ call = NoCall
    /\ \E features \in SeqsUpTo(FeatureNames, MaxFeatures) :
        /\ call' = [fn |-> "find_outliers", features |-> features]
        /\ out' = Returned(find_outliers(df, features))
    /\ UNCHANGED <<df, shape, text_to_num_mapping>>

GenderBarplot ==
    /\ shape = "survey"
    /\ call = NoCall
    /\ call' = [fn |-> "create_gender_barplot"]
    /\ out' = Returned(gender_counts(df))
    /\ UNCHANGED <<df, shape, text_to_num_mapping>>

\* The caller takes the result; the session is ready for its next call.
Lineplot ==
    /\ shape = "survey"
    /\ call = NoCall
    /\ \E questions \in QuestionLists :
        /\ call' = [fn |-> "create_lineplot", questions |-> questions]
        /\ out' = Returned(create_lineplot(df, questions))
    /\ UNCHANGED <<df, shape, text_to_num_mapping>>

PrevalenceBarplot ==
    /\ shape = "survey"
    /\ call = NoCall
    /\ \E q1 \in QuestionIDs, q2 \in QuestionIDs :
        \E order \in value_counts(df, q2) :
            /\ call' = [fn |-> "create_prevalence_barplot", q1 |-> q1, q2 |-> q2]
            /\ out' = Returned(top_3_diagnoses(df, q1, q2, order))
    /\ UNCHANGED <<df, shape, text_to_num_mapping>>

CorrelationHeatmap ==
    /\ shape = "wide"
    /\ call = NoCall
    /\ LET local  == copy(df)
           filled == fill_columns(text_to_num_mapping, local.data)
       IN  /\ df' = IF local.shared THEN after_loop(local.data, filled) ELSE df
           /\ out' = correlation_input(local.data, filled)
    /\ call' = [fn |-> "create_correlation_heatmap"]
    /\ UNCHANGED <<shape, text_to_num_mapping>>

ViolinSubplots ==
    /\ shape = "wide"
    /\ call = NoCall
    /\ \E question_pairs \in SeqsUpTo(QuestionPairs, MaxPairs) \ {<<>>} :
        /\ call' = [fn |-> "create_violin_subplots", question_pairs |-> question_pairs]
        /\ out' = Returned(create_violin_subplots(text_to_num_mapping, question_pairs, df))
    /\ UNCHANGED <<df, shape, text_to_num_mapping>>

Return ==
    /\ call # NoCall
    /\ call' = NoCall
    /\ out' = <<>>
    /\ UNCHANGED <<df, shape, text_to_num_mapping>>

Next ==
    \/ FindOutliers
    \/ GenderBarplot
    \/ Lineplot
    \/ PrevalenceBarplot
    \/ CorrelationHeatmap
    \/ ViolinSubplots
    \/ Return

Spec == Init /\ [][Next]_vars

\* ------------------------------------------------------------------- claims

IsCall(fn) == call.fn = fn

\* The requested features that are columns of the table, in request order.
PresentFeatures(features) == SelectSeq(features, LAMBDA f : f \in df.columns)

SummaryOfPresent(summary) == SelectSeq(summary, LAMBDA l : l.kind # "not found")

\* C1: create_prevalence_barplot with a denominator of 0 ends in an explicit
\* domain error, and never returns a record whose rate, percentage or
\* half-width is NaN or infinite.
C1_ZeroDenominatorRaises ==
    (IsCall("create_prevalence_barplot") /\ respondents(df, call.q1) = 0) =>
        /\ out.raised
        /\ \A i \in DOMAIN out.value :
               /\ IsFinite(out.value[i].PrevalenceRate)
               /\ IsFinite(out.value[i].Percentage)
               /\ out.value[i].CI.k = "root"

\* C2: find_outliers reports a feature that is no column as not found, skips
\* it, still processes every other feature, and returns the list it returns
\* for the feature list with the absent names removed.
C2_AbsentFeaturesSkipped ==
    IsCall("find_outliers") =>
        LET present == PresentFeatures(call.features)
            alone   == find_outliers(df, present)
        IN  /\ ~out.raised
            /\ out.value.outliers_list = alone.outliers_list
            /\ SummaryOfPresent(out.value.summary) = alone.summary
            /\ Len(out.value.summary) = Len(call.features)
            /\ \A i \in DOMAIN call.features :
                   /\ out.value.summary[i].feature = call.features[i]
                   /\ (out.value.summary[i].kind = "not found"
                         <=> call.features[i] \notin df.columns)

C2_Witness ==
    /\ IsCall("find_outliers")
    /\ Len(call.features) = 2
    /\ call.features[1] \notin df.columns
    /\ call.features[2] \in df.columns
    /\ out.value.outliers_list # <<>>

\* The truncation to a whole number of a value kept in halves.
Truncated(v) == IF v >= 0 THEN v \div 2 ELSE -((-v) \div 2)

\* Whether row i of a feature lies strictly outside the feature's IQR bounds.
StrictlyOutside(feature, i) ==
    LET col == Column(df, feature)
    IN  /\ col[i] # NaN
        /\ lower_bound8(col) # NaN
        /\ \/ 8 * col[i][1] < lower_bound8(col)[1]
           \/ 8 * col[i][1] > upper_bound8(col)[1]

\* The truncated outliers of one feature in row order, repeats kept.
Encountered(feature) ==
    LET idx == SelectIdx([i \in DOMAIN df.rows |-> StrictlyOutside(feature, i)],
                         1, Len(df.rows))
    IN  [i \in DOMAIN idx |-> Truncated(Column(df, feature)[idx[i]][1])]

RECURSIVE EncounteredAll(_)
EncounteredAll(features) ==
    IF features = <<>> THEN <<>>
    ELSE Encountered(Head(features)) \o EncounteredAll(Tail(features))

FirstAt(s, x) == CHOOSE i \in DOMAIN s : s[i] = x /\ \A j \in 1..(i - 1) : s[j] # x

\* C3: the list find_outliers returns has no value twice and holds exactly the
\* truncations of the values strictly outside the bounds of some requested
\* present feature, each at the position of its first encounter; a value on a
\* bound and a missing value are never in it.
C3_OutlierListExact ==
    IsCall("find_outliers") =>
        LET L == out.value.outliers_list
            E == EncounteredAll(PresentFeatures(call.features))
        IN  /\ NoDuplicates(L)
            /\ Range(L) = Range(E)
            /\ \A i, j \in DOMAIN L : i < j => FirstAt(E, L[i]) < FirstAt(E, L[j])

C3_Witness ==
    /\ IsCall("find_outliers")
    /\ call.features = <<"b", "a">>
    /\ Len(out.value.outliers_list) = 2
    /\ Len(Encountered("a")) = 2
    /\ \E i \in DOMAIN df.rows :
           /\ df.rows[i].b = NaN
           /\ 8 * df.rows[i].a[1] < lower_bound8(Column(df, "a"))[1]
    /\ \E i \in DOMAIN df.rows :
           8 * df.rows[i].a[1] = upper_bound8(Column(df, "a"))[1]

\* C4: the summary of a present feature is "no outliers" exactly when no value
\* lies strictly outside the bounds, and otherwise the distinct set of the
\* truncated outliers: two outliers that truncate to the same whole number
\* appear once.
C4_FeatureSummaryDistinct ==
    IsCall("find_outliers") =>
        \A i \in DOMAIN out.value.summary :
            LET line == out.value.summary[i]
            IN  line.kind # "not found" =>
                    /\ (line.kind = "no outliers" <=> Encountered(line.feature) = <<>>)
                    /\ Range(line.values) = Range(Encountered(line.feature))
                    /\ NoDuplicates(line.values)

\* Rows of the table with a question id, a wave and a non-null answer.
Answered(q, s) ==
    {i \in DOMAIN df : /\ df[i].QuestionID = q /\ df[i].SurveyID = s
                       /\ df[i].AnswerText # NaN}

AnsweredWith(q, s, c) == {i \in Answered(q, s) : df[i].AnswerText = <<c>>}

\* The cells of one row of a pivoted table that hold a value.
RowValues(tbl, s) ==
    LET idx == SelectIdx([j \in DOMAIN tbl.columns |->
                             tbl.cells[<<s, tbl.columns[j]>>] # XNan],
                         1, Len(tbl.columns))
    IN  [j \in DOMAIN idx |-> tbl.cells[<<s, tbl.columns[idx[j]]>>]]

PivotShape(tbl) ==
    /\ Range(tbl.index) = {s \in {df[i].SurveyID : i \in DOMAIN df} :
                              Answered(tbl.question_id, s) # {}}
    /\ \A i, j \in DOMAIN tbl.index : i < j => tbl.index[i] < tbl.index[j]
    /\ NoDuplicates(tbl.columns)
    /\ \A s \in Range(tbl.index) : XSum(RowValues(tbl, s)) = XInt(100)

PresentCellsArePercentages(tbl) ==
    \A s \in Range(tbl.index), c \in Range(tbl.columns) :
        AnsweredWith(tbl.question_id, s, c) # {} =>
            tbl.cells[<<s, c>>] =
                Fin(100 * Cardinality(AnsweredWith(tbl.question_id, s, c)),
                    Cardinality(Answered(tbl.question_id, s)))

\* C5 as stated: in the pivoted percentage table a cell whose (wave, category)
\* pair is absent from the counts holds 0, a present cell holds count * 100
\* over the row's total, and every row sums to 100.
C5_AbsentCellsZero ==
    IsCall("create_lineplot") =>
        \A k \in DOMAIN out.value :
            /\ PivotShape(out.value[k])
            /\ PresentCellsArePercentages(out.value[k])
            /\ \A s \in Range(out.value[k].index), c \in Range(out.value[k].columns) :
                   AnsweredWith(out.value[k].question_id, s, c) = {} =>
                       out.value[k].cells[<<s, c>>] = XInt(0)

\* C5 amended: a cell whose (wave, category) pair is absent from the counts is
\* missing (NaN), a present cell holds count * 100 over the row's total, and
\* the present cells of every row sum to 100.
C5_AbsentCellsMissing ==
    IsCall("create_lineplot") =>
        /\ Len(out.value) = Min(2, Len(call.questions))
        /\ \A k \in DOMAIN out.value :
            /\ out.value[k].question_id = call.questions[k]
            /\ PivotShape(out.value[k])
            /\ PresentCellsArePercentages(out.value[k])
            /\ \A s \in Range(out.value[k].index), c \in Range(out.value[k].columns) :
                   AnsweredWith(out.value[k].question_id, s, c) = {} =>
                       out.value[k].cells[<<s, c>>] = XNan

C5_Witness ==
    /\ IsCall("create_lineplot")
    /\ \E k \in DOMAIN out.value :
           /\ out.value[k].index = <<2016, 2017>>
           /\ Len(out.value[k].columns) = 3
           /\ out.value[k].cells[<<2016, "C">>] = XNan
           /\ out.value[k].cells[<<2016, "A">>] = Fin(50, 1)
           /\ out.value[k].cells[<<2017, "C">>] = Fin(100, 1)

\* The Percentage values of the rows of one wave.
WavePercentages(rows, s) ==
    LET idx == SelectIdx([j \in DOMAIN rows |-> rows[j].SurveyID = s], 1, Len(rows))
    IN  [j \in DOMAIN idx |-> rows[idx[j]].Percentage]

\* C6: the count/percentage table of create_gender_barplot has one row per
\* observed (wave, category) pair of question 2, ordered by (wave, category)
\* ascending; a row's Percentage is its Count * 100 over the sum of Count in
\* its wave, so the percentages of one wave sum to 100.
C6_DistributionTable ==
    IsCall("create_gender_barplot") =>
        LET rows == out.value IN
        /\ {<<rows[i].SurveyID, rows[i].AnswerText>> : i \in DOMAIN rows}
             = {<<df[i].SurveyID, df[i].AnswerText[1]>> :
                    i \in {j \in DOMAIN df : df[j].QuestionID = 2
                                             /\ df[j].AnswerText # NaN}}
        /\ \A i, j \in DOMAIN rows :
               i < j => \/ rows[i].SurveyID < rows[j].SurveyID
                        \/ /\ rows[i].SurveyID = rows[j].SurveyID
                           /\ TextLess(rows[i].AnswerText, rows[j].AnswerText)
        /\ \A i \in DOMAIN rows :
               /\ rows[i].Count =
                      Cardinality(AnsweredWith(2, rows[i].SurveyID, rows[i].AnswerText))
               /\ rows[i].Percentage =
                      Fin(100 * rows[i].Count,
                          Cardinality(Answered(2, rows[i].SurveyID)))
               /\ XSum(WavePercentages(rows, rows[i].SurveyID)) = XInt(100)

C6_Witness ==
    /\ IsCall("create_gender_barplot")
    /\ Len(out.value) = 3
    /\ out.value[1].SurveyID = 2016 /\ out.value[2].SurveyID = 2016
    /\ out.value[3].SurveyID = 2017
    /\ out.value[1].Percentage = Fin(200, 3)
    /\ \E i, j \in DOMAIN df :
           i < j /\ df[i].QuestionID = 2 /\ df[j].QuestionID = 2
                 /\ df[i].SurveyID > df[j].SurveyID

\* Non-null answers to a question in wave 2016.
Denominator(q1) == Cardinality(Answered(q1, 2016))

\* Rows of a question with a given answer, all waves.
Frequency(q2, c) ==
    Cardinality({i \in DOMAIN df : df[i].QuestionID = q2 /\ df[i].AnswerText = <<c>>})

AnswersTo(q2) ==
    {df[i].AnswerText[1] : i \in {j \in DOMAIN df : df[j].QuestionID = q2
                                                    /\ df[j].AnswerText # NaN}}

\* Row of the first answer c to q2.
FirstRow(q2, c) ==
    CHOOSE i \in DOMAIN df :
        /\ df[i].QuestionID = q2 /\ df[i].AnswerText = <<c>>
        /\ \A j \in 1..(i - 1) : ~(df[j].QuestionID = q2 /\ df[j].AnswerText = <<c>>)

\* Whether answer a comes before answer b: larger count first, and among
\* equal counts the one met first in the table.
Before(q2, a, b) ==
    \/ Frequency(q2, a) > Frequency(q2, b)
    \/ Frequency(q2, a) = Frequency(q2, b) /\ FirstRow(q2, a) < FirstRow(q2, b)

TopByCount(recs, q1, q2) ==
    /\ Len(recs) = Min(3, Cardinality(AnswersTo(q2)))
    /\ \A i \in DOMAIN recs :
           /\ recs[i].AnswerText \in AnswersTo(q2)
           /\ recs[i].count = Frequency(q2, recs[i].AnswerText)
           /\ \A c \in AnswersTo(q2) \ {recs[j].AnswerText : j \in DOMAIN recs} :
                  Frequency(q2, c) <= recs[i].count
           /\ recs[i].PrevalenceRate =
                  (IF Denominator(q1) = 0 THEN XInf
                   ELSE Fin(recs[i].count, Denominator(q1)))
           /\ recs[i].Percentage =
                  (IF Denominator(q1) = 0 THEN XInf
                   ELSE Fin(100 * recs[i].count, Denominator(q1)))
    /\ \A i, j \in DOMAIN recs :
           /\ i < j => recs[i].count >= recs[j].count
           /\ i # j => recs[i].AnswerText # recs[j].AnswerText

NumberOf(text) ==
    CASE text = "7" -> <<70>>
      [] text = "10" -> <<100>>
      [] text = "12" -> <<120>>
      [] text = "3" -> <<30>>
      [] OTHER -> NaN

\* The value a cell stands for in the correlation: the mapped value of a text
\* of the ordinal mapping, else the number the text spells, else missing.
Coerced(cell) ==
    IF cell = NaN THEN NaN
    ELSE IF cell[1] \in {"Yes", "Yes, all of them"} THEN <<10>>
    ELSE IF cell[1] \in {"No", "None of them"} THEN <<0>>
    ELSE IF cell[1] \in {"Some did", "Some of them", "Maybe"} THEN <<5>>
    ELSE NumberOf(cell[1])

\* C8: every cell of the table create_correlation_heatmap correlates is the
\* mapped value when its text is in the ordinal mapping, else the number its
\* text parses as, else missing; a null cell and an unmapped non-numeric text
\* are missing, never 0, and a numeric text is not altered by the mapping.
C8_CellCoercionOrder ==
    IsCall("create_correlation_heatmap") =>
        /\ ~out.raised
        /\ Len(out.value) = Len(df)
        /\ \A i \in DOMAIN df : \A c \in 1..2 :
               out.value[i][c] = Coerced(df[i][c])

\* C9: no call changes the caller's table or the module-level mapping.
C9_InputsNotMutated ==
    [][df' = df /\ text_to_num_mapping' = text_to_num_mapping]_vars

C9_Witness ==
    /\ IsCall("create_correlation_heatmap")
    /\ Len(df) = 2
    /\ ~out.raised
    /\ df[1][1] = <<"Yes">>
    /\ out.value[1][1] = <<10>>
    /\ text_to_num_mapping = MappingTable

\* C10: with a non-zero denominator every record of create_prevalence_barplot
\* has a rate between 0 and 1, so the half-width is a defined real number.
C10_RateWithinUnitInterval ==
    (IsCall("create_prevalence_barplot") /\ respondents(df, call.q1) # 0) =>
        \A i \in DOMAIN out.value :
            /\ IsFinite(out.value[i].PrevalenceRate)
            /\ out.value[i].PrevalenceRate.n >= 0
            /\ out.value[i].PrevalenceRate.n <= out.value[i].PrevalenceRate.d
            /\ out.value[i].CI.k = "root"
====
